---- MODULE Spec2Model ----
(***************************************************************************)
(* Submission lifecycle of the server-actions-resend example:              *)
(*   - useMutation (lib/utils.ts): pending/error flags around one          *)
(*     asynchronous operation, with onSuccess/onError callbacks;           *)
(*   - RequestForm (app/request-form.tsx, the version built on             *)
(*     lib/utils): three submit handlers (form action + mutate, Use        *)
(*     Transition, Use Optimistic) writing to the request list owned by    *)
(*     Home (app/page.tsx);                                                *)
(*   - ContactForm (app/Form.tsx): handleSubmit(mutate) with toasts.       *)
(*                                                                         *)
(* A render closure sees the `requests` of the render that created it, so  *)
(* every in-flight submission carries the list it captured (snapshot).     *)
(* Each action is one event-loop task: an event handler or the             *)
(* continuation that runs when a promise settles, with the state updates   *)
(* it batches committed at its end.                                        *)
(*                                                                         *)
(* Specifications:                                                         *)
(*   Spec      RequestForm mounted by Home, operation = claimUsername;     *)
(*   LiveSpec  Spec with every operation settling and every transition     *)
(*             ending (weak fairness);                                     *)
(*   SpecHook  useMutation alone, called with any operation outcome and    *)
(*             at any time (mutate has no guard of its own).               *)
(*   SpecThrow SpecHook with callbacks that may throw;                     *)
(*   SpecVoid  Spec with an operation that may resolve without a value;    *)
(*   SpecApp   the page with either RequestForm or ContactForm             *)
(*             (app/Form.tsx, operation = sendEmail) mounted;              *)
(*   SpecActionState  the useActionState example (FormAction);             *)
(*   SpecOptimistic   the variant of RequestForm built on useOptimistic    *)
(*             and @tanstack/react-query.                                  *)
(***************************************************************************)
EXTENDS Integers, Sequences, FiniteSets, TLC

\* ---------------------------------------------------------------- bounds
MaxSubmits == 2      \* handleSubmit invocations of RequestForm explored
MaxCalls == 2        \* mutate invocations explored in SpecHook
MaxActions == 6      \* submissions of the useActionState form explored

\* ------------------------------------------------------------- constants
MinUsernameLen == 3  \* z.string().min(3)
MinMessageLen == 3   \* message: z.string().min(3)
MaxMessageLen == 100 \* message: z.string().max(100)

\* Field contents the user may type ("" is the form's default value).
Usernames == {"ab", "bob", "alice"}

VARIABLES
  \* --- Home / RequestForm
  historicalRequests, \* the list Home was constructed with
  requests,           \* Home's React state: the authoritative list
  username,           \* content of the username field
  submitCount,        \* formState.submitCount: handleSubmit invocations
  isSubmitSuccessful, \* formState.isSubmitSuccessful: the last one validated
  ops,                \* calls of the submission operation, in call order
  isPending,          \* useMutation flag
  isError,            \* useMutation flag
  isPendingTransition,
  isPendingOptimistic,
  optimisticQueue,    \* optimistic values of the pending optimistic transition
  toasts,             \* notifications emitted, in order
  \* --- SpecHook only
  runs,               \* mutate invocations, in call order
  calls,              \* callback invocations, in order
  fnCalls,            \* arguments of the calls of mutationFn, in order
  \* --- the page as a whole
  page,               \* the component that is mounted
  contactForm,        \* ContactForm's field values
  unhandled,          \* invocations whose rejection escaped its handler
  \* --- the useActionState example
  action,             \* the action state FormAction renders
  actionQueue,        \* submissions dispatched and not yet settled
  actionLog           \* settlements of runAction, in order

formVars == <<historicalRequests, requests, username, submitCount, isSubmitSuccessful,
              ops, isPendingTransition, isPendingOptimistic, optimisticQueue,
              toasts>>
hookVars == <<isPending, isError>>
benchVars == <<runs, calls, fnCalls>>
appVars == <<page, contactForm, unhandled>>
actionVars == <<action, actionQueue, actionLog>>
vars == <<formVars, hookVars, benchVars, appVars, actionVars>>

\* ------------------------------------------------------------ Request Model
Statuses == {"Pending", "Error", "Requested", "Approved", "Rejected"}
Terminal == {"Requested", "Error"}

\* usernameRequestForm.safeParse(values).success
\* faulty variant: min(1)
usernameRequestForm_NonEmpty(u) == Len(u) > 0
usernameRequestForm(u) == Len(u) >= MinUsernameLen

\* An entry of the list.  `sid` is not a program field: it names the
\* submission whose handler built the object (0: built by Home).
Entry(v, st) == [username |-> v.username, sid |-> v.sid, status |-> st]

\* const historicalRequests, both versions of app/page.tsx
HistoricalChoices ==
  { <<>>,
    << Entry([username |-> "hectorsosa", sid |-> 0], "Requested"),
       Entry([username |-> "sosahm", sid |-> 0], "Pending") >> }

\* ------------------------------------------------------------- the operation
Error(m) == [instanceofError |-> TRUE, message |-> m]
Undefined == [undefined |-> TRUE]

\* claimUsername(form): resolves with form or throws Error("Operation failed")
claimUsername(form) ==
  { [kind |-> "resolve", data |-> form],
    [kind |-> "reject", error |-> Error("Operation failed")] }

\* ------------------------------------------------- Optimistic List Reducer
\* (currentState, optimisticValue) => [...currentState, {...optimisticValue, status: "Pending"}]
\* faulty variant: the pending item is put first
OptimisticReducer_Prepend(currentState, optimisticValue) ==
  <<Entry(optimisticValue, "Pending")>> \o currentState
OptimisticReducer(currentState, optimisticValue) ==
  Append(currentState, Entry(optimisticValue, "Pending"))

RECURSIVE ApplyOptimistic(_, _)
ApplyOptimistic(state, queue) ==
  IF queue = <<>> THEN state
  ELSE ApplyOptimistic(OptimisticReducer(state, Head(queue)), Tail(queue))

\* useOptimistic(requests, reducer): the list the table renders.  The queued
\* values are those added in a transition that is still pending.
optimisticRequests == ApplyOptimistic(requests, optimisticQueue)

\* ------------------------------------------------------------ notifications
SuccessMessage(data) ==
  "You have successfully submitted a claim for: @" \o data.username
LoadingMessage(values) == "Submitting a claim for @" \o values.username
Toast(type, message) == [type |-> type, message |-> message]

\* ------------------------------------------------------------- useMutation
\* error instanceof Error ? error : new Error("Unknown error")
\* faulty variant: the thrown value is passed on as it is
NormalizeError_PassThrough(error) == error
NormalizeError(error) ==
  IF error.instanceofError THEN error ELSE Error("Unknown error")

\* mutate: setIsPending(true); setIsError(false)
MutateStartFlags == [isPending |-> TRUE, isError |-> FALSE]

\* mutate after the await: setIsError(false) in try, setIsError(true) in
\* catch, setIsPending(false) in finally
MutateSettleFlags(res) == [isPending |-> FALSE, isError |-> (res.kind = "reject")]

\* The promise mutate returns: the catch block takes every rejection of the
\* operation, so it is fulfilled either way.
\* faulty variant: no catch block
MutatePromise_NoCatch(res) == IF res.kind = "reject" THEN "rejected" ELSE "fulfilled"
MutatePromise(res) == "fulfilled"

\* <Button disabled={isPending}>: the submit trigger of both forms
\* faulty variant: the button is never disabled
SubmitDisabled_Never == FALSE
SubmitDisabled == isPending

\* error instanceof Error ? error.message : "Unknown error"
\* faulty variant: the message of an Error is not used
ToastErrorMessage_AlwaysUnknown(error) == "Unknown error"
ToastErrorMessage(error) ==
  IF error.instanceofError THEN error.message ELSE "Unknown error"

\* ---------------------------------------------------------- useActionState
\* const initState: State = { status: "INIT" }
initState == [status |-> "INIT"]

\* <input type="text" name="name" value="Hello from actions" readOnly />
FormData == [name |-> "Hello from actions"]

\* runAction(_prevState, data): after the timer the promise is resolved with
\* {data, status: "SUCCESS"} or with {status: "ERROR"}; it is never rejected.
\* faulty variant: failure is a rejection
runAction_Rejects(prevState, data) ==
  { [kind |-> "resolve", value |-> [status |-> "SUCCESS", data |-> data]],
    [kind |-> "reject", value |-> [status |-> "ERROR"]] }
\* faulty variant: a failure gives the initial state back
runAction_BackToInit(prevState, data) ==
  { [kind |-> "resolve", value |-> [status |-> "SUCCESS", data |-> data]],
    [kind |-> "resolve", value |-> initState] }
runAction(prevState, data) ==
  { [kind |-> "resolve", value |-> [status |-> "SUCCESS", data |-> data]],
    [kind |-> "resolve", value |-> [status |-> "ERROR"]] }

\* <button type="submit" disabled={isPending}>
\* faulty variant: the button is never disabled
ActionSubmitDisabled_Never == FALSE
ActionSubmitDisabled == isPending

\* ------------------------------------------------------------- ContactForm
\* Field contents the user may type; EmailAddresses are those of them that
\* z.string().email() accepts.
Emails == {"sosa", "sosa@webscope.io"}
EmailAddresses == {"sosa@webscope.io"}
Messages == {"Hi", "Hello there"}
ContactDefaults == [email |-> "", message |-> ""]
ContactInputs == [email : Emails, message : Messages]

formSchema(f) ==
  /\ f.email \in EmailAddresses
  /\ Len(f.message) >= MinMessageLen
  /\ Len(f.message) <= MaxMessageLen

\* sendEmail: a one-second timer, then a throw or a return without a value.
sendEmail(form) ==
  { [kind |-> "resolve", data |-> Undefined],
    [kind |-> "reject", error |-> Error("Operation failed")] }

\* The field values after a settlement: onSuccess calls form.reset(), onError
\* leaves the form alone.
\* faulty variant: the form is reset after a failure as well
FormAfterSettle_AlwaysReset(res, form) == ContactDefaults
FormAfterSettle(res, form) ==
  IF res.kind = "resolve" THEN ContactDefaults ELSE form

ContactToast(type, message, description) ==
  [type |-> type, message |-> message, description |-> description]
ThankYouDescription(email) == "We will reply shortly to: " \o email \o "!"

\* ------------------------------------------------------------- RequestForm
\* What the callbacks of one render write with setRequests.
PendingRequests(snapshot, values) == Append(snapshot, Entry(values, "Pending"))
\* faulty variant: the entry written on success is still Pending
OnSuccessRequests_KeepsPending(snapshot, data) == Append(snapshot, Entry(data, "Pending"))
\* faulty variant: the Requested entry is added after the Pending one
OnSuccessRequests_OntoCurrent(snapshot, data) ==
  Append(PendingRequests(snapshot, data), Entry(data, "Requested"))
OnSuccessRequests(snapshot, data) == Append(snapshot, Entry(data, "Requested"))
\* faulty variant: the Error entry is written without the spread list
OnErrorRequests_Alone(snapshot, variables) == <<Entry(variables, "Error")>>
OnErrorRequests(snapshot, variables) == Append(snapshot, Entry(variables, "Error"))

InFlight == {i \in DOMAIN ops : ops[i].settled.kind = "pending"}

\* What a submit handler does with validated values, in program order: the
\* form action and handleSubmitWithTransition call setRequests and then start
\* the operation (through mutate or toast.promise); handleSubmitWithOptimistic
\* adds the optimistic value and then starts the operation.
\* faulty variant: the operation is started before the Pending entry is written
HandlerSteps_InvokeFirst(path) ==
  IF path \in {"optimistic", "mutateAsync"}
    THEN <<"validated", "invoke", "addOptimisticRequest">>
    ELSE <<"validated", "invoke", "setRequests Pending">>
HandlerSteps(path) ==
  IF path \in {"optimistic", "mutateAsync"}
    THEN <<"validated", "addOptimisticRequest", "invoke">>
    ELSE <<"validated", "setRequests Pending", "invoke">>

\* What follows the settlement of the operation: the callback, which writes
\* the terminal entry.
SettlementSteps == <<"settled", "setRequests terminal">>

\* onSuccess: if (data) { setRequests(...); toast.success(...) }
\* faulty variant: the guard never lets the write through
OnSuccessWrites_Never(data) == FALSE
OnSuccessWrites(data) == data # Undefined

\* One call of the operation: the handler that made it (path), its argument,
\* the `requests` its handler's render closed over, whether the transition
\* that started it is still pending (tr), how the promise settled, the calls
\* in flight when it was made, and what its handlers have done so far.
Op(path, values, snapshot, tr) ==
  [path |-> path, values |-> values, snapshot |-> snapshot,
   tr |-> tr, settled |-> [kind |-> "pending"],
   overlaps |-> InFlight, steps |-> HandlerSteps(path)]

\* The call record once the promise settled with res and the callback ran.
Settled(op, res, wrote) ==
  [op EXCEPT !.settled = res,
             !.steps = IF wrote THEN @ \o SettlementSteps ELSE Append(@, "settled")]

Init ==
  /\ historicalRequests \in HistoricalChoices
  /\ requests = historicalRequests
  /\ username = ""
  /\ submitCount = 0
  /\ isSubmitSuccessful = FALSE
  /\ ops = <<>>
  /\ isPending = FALSE
  /\ isError = FALSE
  /\ isPendingTransition = FALSE
  /\ isPendingOptimistic = FALSE
  /\ optimisticQueue = <<>>
  /\ toasts = <<>>
  /\ runs = <<>>
  /\ calls = <<>>
  /\ fnCalls = <<>>
  /\ page = "RequestForm"
  /\ contactForm = ContactDefaults
  /\ unhandled = <<>>
  /\ action = initState
  /\ actionQueue = <<>>
  /\ actionLog = <<>>

\* The user edits the field.
TypeUsername(u) ==
  /\ submitCount < MaxSubmits
  /\ u # username
  /\ username' = u
  /\ UNCHANGED <<historicalRequests, requests, submitCount, isSubmitSuccessful,
                 ops, isPendingTransition, isPendingOptimistic,
                 optimisticQueue, toasts, hookVars, benchVars, appVars, actionVars>>

\* form.handleSubmit(onValid)() when the resolver rejects the values.
HandleSubmitInvalid ==
  /\ ~usernameRequestForm(username)
  /\ submitCount' = submitCount + 1
  /\ isSubmitSuccessful' = FALSE
  /\ UNCHANGED <<historicalRequests, requests, username, ops,
                 isPendingTransition, isPendingOptimistic, optimisticQueue,
                 toasts, hookVars, benchVars, appVars, actionVars>>

\* <form action>: setRequests([...requests, Pending]); mutate(values)
FormAction ==
  /\ submitCount < MaxSubmits
  /\ ~SubmitDisabled
  /\ \/ HandleSubmitInvalid
     \/ /\ usernameRequestForm(username)
        /\ LET values == [username |-> username, sid |-> Len(ops) + 1] IN
           /\ submitCount' = submitCount + 1
           /\ isSubmitSuccessful' = TRUE
           /\ requests' = PendingRequests(requests, values)
           /\ ops' = Append(ops, Op("mutation", values, requests, FALSE))
           /\ isPending' = MutateStartFlags.isPending
           /\ isError' = MutateStartFlags.isError
        /\ UNCHANGED <<historicalRequests, username, isPendingTransition,
                       isPendingOptimistic, optimisticQueue, toasts, benchVars, appVars, actionVars>>

\* The continuation of mutate after `await mutationFn(variables)`.
SettleMutation(i, res) ==
  /\ i \in InFlight
  /\ ops[i].path = "mutation"
  /\ IF res.kind = "resolve"
       THEN /\ ops' = [ops EXCEPT ![i] = Settled(ops[i], res, OnSuccessWrites(res.data))]
            /\ IF OnSuccessWrites(res.data)
                 THEN /\ requests' = OnSuccessRequests(ops[i].snapshot, res.data)
                      /\ toasts' = Append(toasts, Toast("success", SuccessMessage(res.data)))
                 ELSE UNCHANGED <<requests, toasts>>
       ELSE /\ ops' = [ops EXCEPT ![i] = Settled(ops[i], res, TRUE)]
            /\ requests' = OnErrorRequests(ops[i].snapshot, ops[i].values)
            /\ toasts' = Append(toasts, Toast("error", NormalizeError(res.error).message))
  /\ isError' = MutateSettleFlags(res).isError
  /\ isPending' = MutateSettleFlags(res).isPending
  /\ unhandled' = IF MutatePromise(res) = "rejected"
                    THEN Append(unhandled, i) ELSE unhandled
  /\ UNCHANGED <<historicalRequests, username, submitCount, isSubmitSuccessful,
                 isPendingTransition, isPendingOptimistic, optimisticQueue,
                 benchVars, page, contactForm, actionVars>>

\* Use Transition button: handleSubmitWithTransition(values)
ClickTransition ==
  /\ submitCount < MaxSubmits
  /\ ~isPendingTransition             \* the button is disabled
  /\ \/ HandleSubmitInvalid
     \/ /\ usernameRequestForm(username)
        /\ LET values == [username |-> username, sid |-> Len(ops) + 1] IN
           /\ submitCount' = submitCount + 1
           /\ isSubmitSuccessful' = TRUE
           /\ requests' = PendingRequests(requests, values)
           /\ isPendingTransition' = TRUE
           /\ ops' = Append(ops, Op("transition", values, requests, TRUE))
           /\ toasts' = Append(toasts, Toast("loading", LoadingMessage(values)))
        /\ UNCHANGED <<historicalRequests, username, isPendingOptimistic,
                       optimisticQueue, hookVars, benchVars, appVars, actionVars>>

\* Use Optimistic button: handleSubmitWithOptimistic(values)
ClickOptimistic ==
  /\ submitCount < MaxSubmits
  /\ ~isPendingOptimistic             \* the button is disabled
  /\ \/ HandleSubmitInvalid
     \/ /\ usernameRequestForm(username)
        /\ LET values == [username |-> username, sid |-> Len(ops) + 1] IN
           /\ submitCount' = submitCount + 1
           /\ isSubmitSuccessful' = TRUE
           /\ isPendingOptimistic' = TRUE
           /\ optimisticQueue' = Append(optimisticQueue, values)
           /\ ops' = Append(ops, Op("optimistic", values, requests, TRUE))
           /\ toasts' = Append(toasts, Toast("loading", LoadingMessage(values)))
        /\ UNCHANGED <<historicalRequests, requests, username,
                       isPendingTransition, hookVars, benchVars, appVars, actionVars>>

\* Whether the async callback given to startTransition awaits the
\* submission it starts: it calls toast.promise(...) without await.
\* faulty variant: the callback awaits the submission
TransitionAwaits_Submission == TRUE
TransitionAwaits == FALSE

\* The async callback given to startTransition awaits nothing: its promise is
\* resolved when the handler returns, and React ends the transition, which
\* drops the optimistic values added in it.
TransitionEnd(path) ==
  /\ TransitionAwaits => \A i \in InFlight : ops[i].path # path
  /\ \/ /\ path = "transition"
        /\ isPendingTransition
        /\ isPendingTransition' = FALSE
        /\ UNCHANGED <<isPendingOptimistic, optimisticQueue>>
     \/ /\ path = "optimistic"
        /\ isPendingOptimistic
        /\ isPendingOptimistic' = FALSE
        /\ optimisticQueue' = <<>>
        /\ UNCHANGED isPendingTransition
  /\ ops' = [i \in DOMAIN ops |->
               IF ops[i].path = path THEN [ops[i] EXCEPT !.tr = FALSE] ELSE ops[i]]
  /\ UNCHANGED <<historicalRequests, requests, username, submitCount,
                 isSubmitSuccessful, toasts, hookVars, benchVars, appVars, actionVars>>

\* toast.promise(sendContactFormEmail(values), {success, error}) settles.
SettleToast(i, res) ==
  /\ i \in InFlight
  /\ ops[i].path \in {"transition", "optimistic"}
  /\ TransitionAwaits \/ ~ops[i].tr   \* the operation outlives its transition
  /\ res \in claimUsername(ops[i].values)
  /\ IF res.kind = "resolve"
       THEN /\ ops' = [ops EXCEPT ![i] = Settled(ops[i], res, TRUE)]
            /\ requests' = OnSuccessRequests(ops[i].snapshot, res.data)
            /\ toasts' = Append(toasts, Toast("success", SuccessMessage(res.data)))
       ELSE /\ ops' = [ops EXCEPT ![i] = Settled(ops[i], res, TRUE)]
            /\ requests' = OnErrorRequests(ops[i].snapshot, ops[i].values)
            /\ toasts' = Append(toasts, Toast("error", ToastErrorMessage(res.error)))
  /\ UNCHANGED <<historicalRequests, username, submitCount, isSubmitSuccessful,
                 isPendingTransition, isPendingOptimistic, optimisticQueue,
                 hookVars, benchVars, appVars, actionVars>>

Next ==
  \/ \E u \in Usernames \cup {""} : TypeUsername(u)
  \/ FormAction
  \/ ClickTransition
  \/ ClickOptimistic
  \/ \E path \in {"transition", "optimistic"} : TransitionEnd(path)
  \/ \E i \in InFlight : \E res \in claimUsername(ops[i].values) : SettleMutation(i, res)
  \/ \E i \in InFlight : \E res \in claimUsername(ops[i].values) : SettleToast(i, res)

Spec == Init /\ [][Next]_vars

\* mutationFn has type (variables) => Promise<TData | void>: an operation
\* that, like sendEmail, returns without a value resolves with undefined.
VoidResolution == [kind |-> "resolve", data |-> Undefined]

NextVoid ==
  \/ Next
  \/ \E i \in InFlight : SettleMutation(i, VoidResolution)

SpecVoid == Init /\ [][NextVoid]_vars

\* ------------------------------------ RequestForm, the optimistic variant
\* The variant built on useOptimistic alone: neither handler writes a Pending
\* entry to the list, and the Use Optimistic handler is the one above.
\* data-error={requests.at(-1)?.status === "Error"} of the Use Optimistic
\* button, which shows "Retry" in place of its label.
\* faulty variant: the indicator is taken from the displayed list
RetryShown_FromDisplayed ==
  /\ optimisticRequests # <<>>
  /\ optimisticRequests[Len(optimisticRequests)].status = "Error"
RetryShown ==
  /\ requests # <<>>
  /\ requests[Len(requests)].status = "Error"

\* <form action>: handleSubmitWithMutation(values).  The handler runs after
\* the awaits of the action and of handleSubmit, outside the action's
\* transition, so its optimistic value is not held in the displayed list.
HandleSubmitWithMutation ==
  /\ page = "RequestFormOptimistic"
  /\ submitCount < MaxSubmits
  /\ ~SubmitDisabled
  /\ \/ HandleSubmitInvalid
     \/ /\ usernameRequestForm(username)
        /\ LET values == [username |-> username, sid |-> Len(ops) + 1] IN
           /\ submitCount' = submitCount + 1
           /\ isSubmitSuccessful' = TRUE
           /\ ops' = Append(ops, Op("mutateAsync", values, requests, FALSE))
           /\ toasts' = Append(toasts, Toast("loading", LoadingMessage(values)))
           /\ isPending' = TRUE
           /\ isError' = FALSE
        /\ UNCHANGED <<historicalRequests, requests, username, isPendingTransition,
                       isPendingOptimistic, optimisticQueue, benchVars, appVars,
                       actionVars>>

\* toast.promise(mutateAsync(values), {success, error}) settles.
SettleMutateAsync(i, res) ==
  /\ page = "RequestFormOptimistic"
  /\ i \in InFlight
  /\ ops[i].path = "mutateAsync"
  /\ ops' = [ops EXCEPT ![i] = Settled(ops[i], res, TRUE)]
  /\ IF res.kind = "resolve"
       THEN /\ requests' = OnSuccessRequests(ops[i].snapshot, res.data)
            /\ toasts' = Append(toasts, Toast("success", SuccessMessage(res.data)))
       ELSE /\ requests' = OnErrorRequests(ops[i].snapshot, ops[i].values)
            /\ toasts' = Append(toasts, Toast("error", ToastErrorMessage(res.error)))
  /\ isPending' = FALSE
  /\ isError' = (res.kind = "reject")
  /\ UNCHANGED <<historicalRequests, username, submitCount, isSubmitSuccessful,
                 isPendingTransition, isPendingOptimistic, optimisticQueue,
                 benchVars, appVars, actionVars>>

InitOptimistic ==
  /\ page = "RequestFormOptimistic"
  /\ historicalRequests \in HistoricalChoices
  /\ requests = historicalRequests
  /\ username = ""
  /\ submitCount = 0
  /\ isSubmitSuccessful = FALSE
  /\ ops = <<>>
  /\ isPending = FALSE
  /\ isError = FALSE
  /\ isPendingTransition = FALSE
  /\ isPendingOptimistic = FALSE
  /\ optimisticQueue = <<>>
  /\ toasts = <<>>
  /\ runs = <<>>
  /\ calls = <<>>
  /\ fnCalls = <<>>
  /\ contactForm = ContactDefaults
  /\ unhandled = <<>>
  /\ action = initState
  /\ actionQueue = <<>>
  /\ actionLog = <<>>

NextOptimistic ==
  \/ \E u \in Usernames \cup {""} : TypeUsername(u)
  \/ HandleSubmitWithMutation
  \/ ClickOptimistic
  \/ TransitionEnd("optimistic")
  \/ \E i \in InFlight : \E res \in claimUsername(ops[i].values) : SettleMutateAsync(i, res)
  \/ \E i \in InFlight : \E res \in claimUsername(ops[i].values) : SettleToast(i, res)

SpecOptimistic == InitOptimistic /\ [][NextOptimistic]_vars

\* ------------------------------------------------ useMutation on its own
\* mutate is an ordinary function: it can be called with any variables, at
\* any time, and mutationFn may resolve with a value or with undefined and
\* reject with any thrown value.
HookVariables == {[username |-> "bob"], [username |-> "alice"]}
Thrown == {Error("Operation failed"),
           [instanceofError |-> FALSE, message |-> "Rate limited"]}
mutationFn(variables) ==
  { [kind |-> "resolve", data |-> d] : d \in {variables, Undefined} }
    \cup { [kind |-> "reject", error |-> e] : e \in Thrown }

Running == {i \in DOMAIN runs : runs[i].settled.kind = "pending"}

\* The calls of mutationFn one invocation of mutate makes: the single
\* `await mutationFn(variables)`; nothing is called again at settlement.
\* faulty variant: a call with variables already in flight is merged
MutationFnCalls_Dedup(variables) ==
  IF \E i \in Running : runs[i].variables = variables THEN <<>> ELSE <<variables>>
MutationFnCalls(variables) == <<variables>>

HookMutate(variables) ==
  /\ Len(runs) < MaxCalls
  /\ runs' = Append(runs, [variables |-> variables, settled |-> [kind |-> "pending"]])
  /\ fnCalls' = fnCalls \o MutationFnCalls(variables)
  /\ isPending' = MutateStartFlags.isPending
  /\ isError' = MutateStartFlags.isError
  /\ UNCHANGED <<formVars, calls, appVars, actionVars>>

\* The callbacks one settlement invokes: onSuccess?.(data, variables) in
\* the try block, onError?.(error, variables) in the catch block.
Callbacks(res, variables) ==
  IF res.kind = "resolve"
    THEN << [callback |-> "onSuccess", arg |-> res.data, variables |-> variables] >>
    ELSE << [callback |-> "onError", arg |-> NormalizeError(res.error),
             variables |-> variables] >>

\* The statements mutate runs after the await, in program order: setIsError
\* in try/catch, the callback next to it, setIsPending(false) in finally.
\* faulty variant: isPending is cleared before the callback runs
SettleSteps_PendingFirst == <<"setIsPending", "setIsError", "callback">>
SettleSteps == <<"setIsError", "callback", "setIsPending">>

Precedes(steps, a, b) ==
  \E m, n \in DOMAIN steps : m < n /\ steps[m] = a /\ steps[n] = b

\* A callback invocation is recorded with the invocation it belongs to and
\* with what the setters have been given when it is invoked.
HookSettle(i, res) ==
  /\ i \in Running
  /\ res \in mutationFn(runs[i].variables)
  /\ runs' = [runs EXCEPT ![i].settled = res]
  /\ LET cbs == Callbacks(res, runs[i].variables)
         cleared == Precedes(SettleSteps, "setIsPending", "callback")
         errorSet == Precedes(SettleSteps, "setIsError", "callback")
     IN  calls' = calls \o
           [k \in DOMAIN cbs |->
             [callback |-> cbs[k].callback, arg |-> cbs[k].arg,
              variables |-> cbs[k].variables, run |-> i, settled |-> res,
              threw |-> FALSE, pendingCleared |-> cleared,
              flags |-> [isPending |-> IF cleared THEN MutateSettleFlags(res).isPending
                                                  ELSE isPending,
                         isError |-> IF errorSet THEN MutateSettleFlags(res).isError
                                                 ELSE isError]]]
  /\ isError' = MutateSettleFlags(res).isError
  /\ isPending' = MutateSettleFlags(res).isPending
  /\ unhandled' = IF MutatePromise(res) = "rejected"
                    THEN Append(unhandled, i) ELSE unhandled
  /\ UNCHANGED <<formVars, fnCalls, page, contactForm, actionVars>>

\* The error handler given to toast.promise, applied to a rejection.
HookToastError(e) ==
  /\ Len(calls) < MaxCalls
  /\ calls' = Append(calls,
       [callback |-> "toast.promise error", arg |-> ToastErrorMessage(e),
        variables |-> Undefined, run |-> 0,
        settled |-> [kind |-> "reject", error |-> e]])
  /\ UNCHANGED <<formVars, hookVars, runs, fnCalls, appVars, actionVars>>

NextHook ==
  \/ \E v \in HookVariables : HookMutate(v)
  \/ \E i \in Running : \E res \in mutationFn(runs[i].variables) : HookSettle(i, res)
  \/ \E e \in Thrown : HookToastError(e)

SpecHook == Init /\ [][NextHook]_vars

\* ------------------------------------------- callbacks that may throw
\* onSuccess and onError are the caller's functions.  onSuccess is called
\* inside the try block, so what it throws is caught like a rejection of the
\* operation; what onError throws leaves mutate after the finally block.
CallbackError == Error("Callback failed")

\* One run of mutate's try/catch/finally: the callbacks invoked in order,
\* the flags as the setters leave them and the promise mutate returns.
\* faulty variant: setIsPending(false) follows the try/catch as a plain
\* statement, which an exception leaving the catch block skips
MutateRun_NoFinally(res, variables, successThrows, errorThrows) ==
  LET caught == res.kind = "reject" \/ successThrows
      thrown == IF res.kind = "reject" THEN res.error ELSE CallbackError
      tried == IF res.kind = "resolve"
                 THEN << [callback |-> "onSuccess", arg |-> res.data,
                          variables |-> variables, threw |-> successThrows] >>
                 ELSE << >>
      handled == IF caught
                   THEN << [callback |-> "onError", arg |-> NormalizeError(thrown),
                            variables |-> variables, threw |-> errorThrows] >>
                   ELSE << >>
  IN  [callbacks |-> tried \o handled,
       isError |-> caught,
       isPending |-> IF caught /\ errorThrows THEN isPending ELSE FALSE,
       promise |-> IF caught /\ errorThrows THEN "rejected" ELSE "fulfilled"]
MutateRun(res, variables, successThrows, errorThrows) ==
  LET caught == res.kind = "reject" \/ successThrows
      thrown == IF res.kind = "reject" THEN res.error ELSE CallbackError
      tried == IF res.kind = "resolve"
                 THEN << [callback |-> "onSuccess", arg |-> res.data,
                          variables |-> variables, threw |-> successThrows] >>
                 ELSE << >>
      handled == IF caught
                   THEN << [callback |-> "onError", arg |-> NormalizeError(thrown),
                            variables |-> variables, threw |-> errorThrows] >>
                   ELSE << >>
  IN  [callbacks |-> tried \o handled,
       isError |-> caught,
       isPending |-> FALSE,
       promise |-> IF caught /\ errorThrows THEN "rejected" ELSE "fulfilled"]

\* A settlement in which a callback throws.
HookSettleThrows(i, res, successThrows, errorThrows) ==
  /\ i \in Running
  /\ res \in mutationFn(runs[i].variables)
  /\ successThrows \/ errorThrows
  /\ runs' = [runs EXCEPT ![i].settled = res]
  /\ LET run == MutateRun(res, runs[i].variables, successThrows, errorThrows)
         cleared == Precedes(SettleSteps, "setIsPending", "callback")
     IN  /\ calls' = calls \o
               [k \in DOMAIN run.callbacks |->
                 [callback |-> run.callbacks[k].callback, arg |-> run.callbacks[k].arg,
                  variables |-> run.callbacks[k].variables, run |-> i, settled |-> res,
                  threw |-> run.callbacks[k].threw, pendingCleared |-> cleared,
                  flags |-> [isPending |-> isPending,
                             isError |-> run.callbacks[k].callback = "onError"]]]
         /\ isError' = run.isError
         /\ isPending' = run.isPending
         /\ unhandled' = IF run.promise = "rejected"
                           THEN Append(unhandled, i) ELSE unhandled
  /\ UNCHANGED <<formVars, fnCalls, page, contactForm, actionVars>>

NextThrow ==
  \/ NextHook
  \/ \E i \in Running : \E res \in mutationFn(runs[i].variables) :
       \E successThrows, errorThrows \in BOOLEAN :
         HookSettleThrows(i, res, successThrows, errorThrows)

SpecThrow == Init /\ [][NextThrow]_vars

\* ---------------------------------------------------------- ContactForm
ContactType(f) ==
  /\ page = "ContactForm"
  /\ Len(runs) < MaxSubmits
  /\ f # contactForm
  /\ contactForm' = f
  /\ UNCHANGED <<formVars, hookVars, benchVars, page, unhandled, actionVars>>

\* <form onSubmit={form.handleSubmit(mutate)}>: with invalid values only the
\* form state changes; with valid ones mutate(values) is called and awaited.
ContactSubmit ==
  /\ page = "ContactForm"
  /\ ~SubmitDisabled
  /\ submitCount + Cardinality(Running) < MaxSubmits
  /\ IF formSchema(contactForm)
       THEN /\ runs' = Append(runs, [variables |-> contactForm,
                                     settled |-> [kind |-> "pending"]])
            /\ fnCalls' = fnCalls \o MutationFnCalls(contactForm)
            /\ isPending' = MutateStartFlags.isPending
            /\ isError' = MutateStartFlags.isError
            /\ UNCHANGED <<submitCount, isSubmitSuccessful>>
       ELSE /\ submitCount' = submitCount + 1
            /\ isSubmitSuccessful' = FALSE
            /\ UNCHANGED <<runs, fnCalls, hookVars>>
  /\ UNCHANGED <<historicalRequests, requests, username, ops, isPendingTransition,
                 isPendingOptimistic, optimisticQueue, toasts, calls, appVars, actionVars>>

\* mutate's continuation with ContactForm's callbacks; handleSubmit, which
\* awaited mutate, then updates the form state.
ContactSettle(i, res) ==
  /\ page = "ContactForm"
  /\ i \in Running
  /\ res \in sendEmail(runs[i].variables)
  /\ runs' = [runs EXCEPT ![i].settled = res]
  /\ IF res.kind = "resolve"
       THEN /\ contactForm' = FormAfterSettle(res, contactForm)
            /\ toasts' = Append(toasts,
                 ContactToast("success", "Thank you",
                              ThankYouDescription(runs[i].variables.email)))
       ELSE /\ contactForm' = FormAfterSettle(res, contactForm)
            /\ toasts' = Append(toasts,
                 ContactToast("error", "Something went wrong!",
                              NormalizeError(res.error).message))
  /\ isError' = MutateSettleFlags(res).isError
  /\ isPending' = MutateSettleFlags(res).isPending
  /\ unhandled' = IF MutatePromise(res) = "rejected"
                    THEN Append(unhandled, i) ELSE unhandled
  /\ submitCount' = submitCount + 1
  /\ isSubmitSuccessful' = (MutatePromise(res) = "fulfilled")
  /\ UNCHANGED <<historicalRequests, requests, username, ops, isPendingTransition,
                 isPendingOptimistic, optimisticQueue, calls, fnCalls, page, actionVars>>

NextContact ==
  \/ \E f \in ContactInputs : ContactType(f)
  \/ ContactSubmit
  \/ \E i \in Running : \E res \in sendEmail(runs[i].variables) : ContactSettle(i, res)

\* Either component is the one mounted on the page.
InitApp ==
  \/ Init
  \/ /\ page = "ContactForm"
     /\ contactForm = ContactDefaults
     /\ unhandled = <<>>
     /\ action = initState
     /\ actionQueue = <<>>
     /\ actionLog = <<>>
     /\ historicalRequests = <<>>
     /\ requests = <<>>
     /\ username = ""
     /\ submitCount = 0
     /\ isSubmitSuccessful = FALSE
     /\ ops = <<>>
     /\ isPending = FALSE
     /\ isError = FALSE
     /\ isPendingTransition = FALSE
     /\ isPendingOptimistic = FALSE
     /\ optimisticQueue = <<>>
     /\ toasts = <<>>
     /\ runs = <<>>
     /\ calls = <<>>
     /\ fnCalls = <<>>

NextApp ==
  \/ page = "RequestForm" /\ Next
  \/ page = "ContactForm" /\ NextContact

SpecApp == InitApp /\ [][NextApp]_vars

\* ------------------------------------------------------ useActionState
\* <form action={submitAction}>: the submission is dispatched with the form's
\* data; useActionState runs dispatched actions one after the other and
\* isPending is true until the last of them has settled.
SubmitAction ==
  /\ page = "FormAction"
  /\ ~ActionSubmitDisabled
  /\ Len(actionLog) + Len(actionQueue) < MaxActions
  /\ actionQueue' = Append(actionQueue,
       [id |-> Len(actionLog) + Len(actionQueue) + 1, name |-> FormData.name])
  /\ isPending' = TRUE
  /\ UNCHANGED <<formVars, isError, benchVars, appVars, action, actionLog>>

\* The promise of the running action settles: the reducer's result becomes
\* the action state.  A rejection is thrown when the component renders and
\* leaves the state as it is.
ActionSettle(res) ==
  /\ page = "FormAction"
  /\ actionQueue # <<>>
  /\ res \in runAction(action, Head(actionQueue).name)
  /\ action' = IF res.kind = "resolve" THEN res.value ELSE action
  /\ actionLog' = Append(actionLog,
       [id |-> Head(actionQueue).id, name |-> Head(actionQueue).name,
        kind |-> res.kind, state |-> res.value, prev |-> action,
        waiting |-> Len(actionQueue) - 1])
  /\ actionQueue' = Tail(actionQueue)
  /\ isPending' = (Tail(actionQueue) # <<>>)
  /\ UNCHANGED <<formVars, isError, benchVars, appVars>>

InitActionState ==
  /\ page = "FormAction"
  /\ contactForm = ContactDefaults
  /\ unhandled = <<>>
  /\ action = initState
  /\ actionQueue = <<>>
  /\ actionLog = <<>>
  /\ historicalRequests = <<>>
  /\ requests = <<>>
  /\ username = ""
  /\ submitCount = 0
  /\ isSubmitSuccessful = FALSE
  /\ ops = <<>>
  /\ isPending = FALSE
  /\ isError = FALSE
  /\ isPendingTransition = FALSE
  /\ isPendingOptimistic = FALSE
  /\ optimisticQueue = <<>>
  /\ toasts = <<>>
  /\ runs = <<>>
  /\ calls = <<>>
  /\ fnCalls = <<>>

NextActionState ==
  \/ SubmitAction
  \/ \E res \in runAction(action, FormData.name) : ActionSettle(res)

SpecActionState == InitActionState /\ [][NextActionState]_vars

\* The operation is a one-second timer followed by a return or a throw, so
\* every call settles; a transition whose callback awaits nothing ends.
Settle(i) ==
  /\ i \in InFlight
  /\ \E res \in claimUsername(ops[i].values) :
       SettleMutation(i, res) \/ SettleToast(i, res)

LiveSpec ==
  /\ Spec
  /\ \A i \in 1..MaxSubmits : WF_vars(Settle(i))
  /\ \A path \in {"transition", "optimistic"} : WF_vars(TransitionEnd(path))

\* ======================================================================
\* Properties
\* ======================================================================
Shows(i, statuses) ==
  \E k \in DOMAIN requests :
    requests[k].sid = i /\ requests[k].status \in statuses

\* C1: every submission made through the form action (Pending entry written,
\* mutate called) whose operation settles is eventually shown in the request
\* list with status Requested or Error, and never with both: a Requested
\* entry exists only for a resolved operation, an Error entry only for a
\* rejected one.
C1_PendingLeadsToTerminal ==
  /\ \A i \in 1..MaxSubmits :
       (i \in InFlight /\ ops[i].path = "mutation") ~> Shows(i, Terminal)
  /\ [](\A i \in DOMAIN ops :
          /\ ~(Shows(i, {"Requested"}) /\ Shows(i, {"Error"}))
          /\ Shows(i, {"Requested"}) => ops[i].settled.kind = "resolve"
          /\ Shows(i, {"Error"}) => ops[i].settled.kind = "reject")

C1_Witness ==
  \E i \in DOMAIN ops :
    /\ ops[i].path = "mutation"
    /\ ops[i].settled.kind # "pending"
    /\ Shows(i, Terminal)
    /\ ~Shows(i, {"Pending"})

\* C2 (as stated): at every point isPending is true exactly when some mutate
\* invocation is between its start and its settlement.
C2_PendingExactlyWhileInFlight == isPending <=> (Running # {})

\* C3: a handleSubmit whose username is shorter than 3 characters, from any
\* of the three submit handlers, leaves the request list, the displayed
\* list, the calls of the operation, the notifications and the flags
\* isPending / isError (and the transition flags) unchanged.
C3_InvalidSubmitChangesNothing ==
  [][(submitCount' # submitCount /\ Len(username) < MinUsernameLen) =>
       /\ requests' = requests
       /\ optimisticRequests' = optimisticRequests
       /\ ops' = ops
       /\ toasts' = toasts
       /\ isPending' = isPending
       /\ isError' = isError
       /\ isPendingTransition' = isPendingTransition
       /\ isPendingOptimistic' = isPendingOptimistic]_vars

C3_Witness ==
  /\ submitCount > 0
  /\ ~isSubmitSuccessful
  /\ username = "ab"
  /\ ops # <<>>

CountToasts(type) == Cardinality({k \in DOMAIN toasts : toasts[k].type = type})

\* C4: after one submission of a valid username u on an initially empty list
\* whose operation resolved with {username: u}, the list is exactly
\* <<{username: u, status: Requested}>>, exactly one success notification was
\* emitted, its message ends in "@u", and no error notification was emitted.
C4_SingleSuccess ==
  (/\ historicalRequests = <<>>
   /\ Len(ops) = 1
   /\ ops[1].settled.kind = "resolve") =>
     LET u == ops[1].values.username IN
     /\ usernameRequestForm(u)
     /\ ops[1].settled.data.username = u
     /\ Len(requests) = 1
     /\ requests[1].username = u
     /\ requests[1].status = "Requested"
     /\ CountToasts("success") = 1
     /\ CountToasts("error") = 0
     /\ \A k \in DOMAIN toasts :
          toasts[k].type = "success" =>
            toasts[k].message = "You have successfully submitted a claim for: @" \o u

C4_Witness ==
  /\ historicalRequests = <<>>
  /\ Len(ops) = 1
  /\ ops[1].settled.kind = "resolve"
  /\ ops[1].path = "mutation"
  /\ ops[1].values.username = "alice"
  /\ Len(requests) = 1

\* C5: when the operation of a submission of u rejects with an Error of
\* message m, the settlement step leaves the list ending in
\* {username: u, status: Error} and emits exactly one notification, an error
\* notification whose message is m; in the mutation path and in both
\* toast.promise paths.
C5_RejectionShowsErrorAndMessage ==
  [][\A i \in DOMAIN ops :
       (/\ ops[i].settled.kind = "pending"
        /\ ops'[i].settled.kind = "reject"
        /\ ops'[i].settled.error.instanceofError) =>
         /\ requests' # <<>>
         /\ requests'[Len(requests')].username = ops[i].values.username
         /\ requests'[Len(requests')].sid = i
         /\ requests'[Len(requests')].status = "Error"
         /\ toasts' = Append(toasts, [type |-> "error",
                                      message |-> ops'[i].settled.error.message])]_vars

C5_Witness ==
  /\ \E i \in DOMAIN ops :
       ops[i].path = "mutation" /\ ops[i].settled.kind = "reject" /\ Shows(i, {"Error"})
  /\ \E i \in DOMAIN ops :
       ops[i].path \in {"transition", "optimistic"} /\ ops[i].settled.kind = "reject"
         /\ Shows(i, {"Error"})
  /\ \E k \in DOMAIN toasts : toasts[k] = [type |-> "error", message |-> "Operation failed"]

\* C6: when the operation rejects, onError is called with the thrown value
\* itself if it is an Error and with a new Error of message "Unknown error"
\* otherwise, together with the variables of that invocation; the error
\* handler given to toast.promise turns the thrown value into a message by
\* the same rule.  Every rejected invocation has its onError call.
C6_OnErrorGetsNormalizedError ==
  /\ \A k \in DOMAIN calls :
       calls[k].settled.kind = "reject" =>
         LET e == calls[k].settled.error IN
         /\ calls[k].callback = "onError" =>
              /\ calls[k].arg = (IF e.instanceofError THEN e
                                 ELSE [instanceofError |-> TRUE, message |-> "Unknown error"])
              /\ calls[k].variables = runs[calls[k].run].variables
              /\ calls[k].settled = runs[calls[k].run].settled
         /\ calls[k].callback = "toast.promise error" =>
              calls[k].arg = (IF e.instanceofError THEN e.message ELSE "Unknown error")
  /\ \A i \in DOMAIN runs :
       runs[i].settled.kind = "reject" =>
         \E k \in DOMAIN calls : calls[k].callback = "onError" /\ calls[k].run = i

C6_Witness ==
  /\ \E k \in DOMAIN calls :
       /\ calls[k].callback = "onError"
       /\ calls[k].settled.kind = "reject"
       /\ ~calls[k].settled.error.instanceofError
  /\ \E k \in DOMAIN calls :
       /\ calls[k].callback = "onError"
       /\ calls[k].settled.kind = "reject"
       /\ calls[k].settled.error.instanceofError
  /\ \E k \in DOMAIN calls :
       /\ calls[k].callback = "toast.promise error"
       /\ ~calls[k].settled.error.instanceofError

IsPrefix(p, q) == Len(p) <= Len(q) /\ SubSeq(q, 1, Len(p)) = p

\* C7 (as stated): every entry of the list stays in the list, unchanged and
\* at the same position, in every later state.
C7_AppendOnly ==
  [][\A k \in DOMAIN requests :
       k \in DOMAIN requests' /\ requests'[k] = requests[k]]_vars

\* C7 (amended): every write of the list is the list of the render the
\* writing handler closed over followed by one new entry: a submit appends a
\* Pending entry to the current list, a settlement writes the list captured
\* at that submission's submit followed by its terminal entry (so the
\* submission's Pending entry and any entry added since are gone).  The
\* entries the list had at construction keep their place in every state.
C7_SnapshotPlusOneEntry ==
  [][/\ IsPrefix(historicalRequests, requests')
     /\ Len(ops') > Len(ops) => ops'[Len(ops')].snapshot = requests
     /\ requests' # requests =>
          \/ /\ Len(ops') > Len(ops)
             /\ Len(requests') = Len(requests) + 1
             /\ IsPrefix(requests, requests')
             /\ requests'[Len(requests')].status = "Pending"
          \/ \E i \in DOMAIN ops :
               /\ ops[i].settled.kind = "pending"
               /\ ops'[i].settled.kind # "pending"
               /\ Len(requests') = Len(ops[i].snapshot) + 1
               /\ IsPrefix(ops[i].snapshot, requests')
               /\ requests'[Len(requests')].sid = i
               /\ requests'[Len(requests')].status \in Terminal]_vars

C7_Witness ==
  /\ historicalRequests # <<>>
  /\ \E i, j \in DOMAIN ops :
       /\ i # j
       /\ ops[i].settled.kind # "pending"
       /\ ops[j].settled.kind # "pending"
       /\ Shows(i, Terminal)
       /\ ~Shows(j, Terminal)

\* C8 (as stated): with one submission, made through the Use Optimistic
\* button on a list of length N, the displayed list has length N+1 while the
\* submission is pending and after it settled, its last entry then being
\* Requested or Error.
C8_OneOptimisticShownThroughout ==
  (Len(ops) = 1 /\ ops[1].path = "optimistic") =>
    /\ Len(optimisticRequests) = Len(ops[1].snapshot) + 1
    /\ ops[1].settled.kind # "pending" =>
         optimisticRequests[Len(optimisticRequests)].status \in Terminal

\* C9: for the current list and any pending item the reducer returns a list
\* one longer, whose first elements are the list's in order and whose last
\* is the item with status Pending; the displayed list of a pending
\* optimistic transition is built that way, and adding an optimistic value
\* leaves the authoritative list unchanged.
C9_ReducerAppendsPending ==
  /\ [](\A u \in Usernames : \A s \in 1..MaxSubmits :
          LET out == OptimisticReducer(requests, [username |-> u, sid |-> s]) IN
          /\ Len(out) = Len(requests) + 1
          /\ \A k \in DOMAIN requests : out[k] = requests[k]
          /\ out[Len(out)] = [username |-> u, sid |-> s, status |-> "Pending"])
  /\ [](optimisticQueue # <<>> =>
          /\ Len(optimisticRequests) = Len(requests) + Len(optimisticQueue)
          /\ \A k \in DOMAIN requests : optimisticRequests[k] = requests[k]
          /\ optimisticRequests[Len(optimisticRequests)].status = "Pending"
          /\ optimisticRequests[Len(optimisticRequests)].username
               = optimisticQueue[Len(optimisticQueue)].username)
  /\ [][Len(optimisticQueue') > Len(optimisticQueue) => requests' = requests]_vars

C9_Witness ==
  /\ optimisticQueue # <<>>
  /\ requests # <<>>
  /\ optimisticRequests = Append(requests,
       [username |-> "alice", sid |-> Len(ops), status |-> "Pending"])

\* C10: every mutate invocation starts with isPending = true and
\* isError = false whatever the flags were; the flags change only when an
\* invocation starts or settles; and when an invocation settles with no
\* other invocation in flight, isError is true exactly if its operation
\* rejected.
C10_StartResetsFlags ==
  [][/\ Len(runs') > Len(runs) => (isPending' /\ ~isError')
     /\ runs' = runs => (isPending' = isPending /\ isError' = isError)
     /\ \A i \in DOMAIN runs :
          (Running = {i} /\ runs'[i].settled.kind # "pending") =>
            (isError' <=> runs'[i].settled.kind = "reject")]_vars

CallsOf(i) == {k \in DOMAIN calls : calls[k].run = i}

\* C11: mutationFn is called exactly once per mutate invocation, with that
\* invocation's variables, whether it resolves or rejects (no retry) and
\* whether or not the same variables are already in flight (no
\* deduplication); every settled invocation has run its own settlement.
C11_OneOperationCallPerInvocation ==
  /\ Len(fnCalls) = Len(runs)
  /\ \A i \in DOMAIN runs :
       /\ fnCalls[i] = runs[i].variables
       /\ runs[i].settled.kind # "pending" => CallsOf(i) # {}
       /\ runs[i].settled.kind = "pending" => CallsOf(i) = {}

C11_Witness ==
  /\ Len(runs) = 2
  /\ runs[1].variables = runs[2].variables
  /\ runs[1].settled.kind = "reject"
  /\ runs[2].settled.kind = "resolve"
  /\ Len(fnCalls) = 2
  /\ Cardinality(CallsOf(1)) = 1
  /\ Cardinality(CallsOf(2)) = 1

HookCallbacks == {"onSuccess", "onError"}

\* C12: every settled mutate invocation has invoked exactly one callback,
\* once: onSuccess(result, variables) if and only if its operation resolved,
\* onError(error, variables) if and only if it rejected; an invocation in
\* flight has invoked none; isError is true only when an operation rejected.
C12_ExactlyOneCallback ==
  /\ \A i \in DOMAIN runs :
       /\ Cardinality(CallsOf(i)) = IF runs[i].settled.kind = "pending" THEN 0 ELSE 1
       /\ \A k \in CallsOf(i) :
            /\ calls[k].variables = runs[i].variables
            /\ calls[k].callback = "onSuccess" <=> runs[i].settled.kind = "resolve"
            /\ calls[k].callback = "onError" <=> runs[i].settled.kind = "reject"
            /\ calls[k].callback = "onSuccess" => calls[k].arg = runs[i].settled.data
  /\ isError => \E i \in DOMAIN runs : runs[i].settled.kind = "reject"

RejectsNow(log, i) ==
  /\ i \in DOMAIN log
  /\ log[i].settled.kind = "pending"
  /\ log'[i].settled.kind = "reject"

\* C13: every rejection of the submission operation is taken where it
\* arrives.  In RequestForm it leaves an Error entry of that submission in
\* the list (and isError true on the form-action path) and exactly one more
\* error notification; in ContactForm it leaves isError true and exactly one
\* more error notification; and no rejection ever escapes mutate or a
\* submit handler.
C13_RejectionsCaught ==
  [][ /\ unhandled' = <<>>
      /\ \A i \in DOMAIN ops :
           RejectsNow(ops, i) =>
             /\ \E k \in DOMAIN requests' :
                  requests'[k].sid = i /\ requests'[k].status = "Error"
             /\ ops[i].path = "mutation" => isError'
             /\ CountToasts("error")' = CountToasts("error") + 1
      /\ \A i \in DOMAIN runs :
           (page = "ContactForm" /\ RejectsNow(runs, i)) =>
             /\ isError'
             /\ isSubmitSuccessful'
             /\ CountToasts("error")' = CountToasts("error") + 1 ]_vars

C13_Witness ==
  /\ page = "ContactForm"
  /\ \E i \in DOMAIN runs : runs[i].settled.kind = "reject"
  /\ isError
  /\ CountToasts("error") = 1
  /\ unhandled = <<>>

\* C14: the submit button being disabled while isPending is true, a form
\* never has two invocations of mutate in flight.
C14_OneInvocationInFlight ==
  /\ Cardinality({i \in InFlight : ops[i].path = "mutation"}) <= 1
  /\ page = "ContactForm" => Cardinality(Running) <= 1

C14_Witness ==
  /\ page = "ContactForm"
  /\ Cardinality(Running) = 1
  /\ SubmitDisabled
  /\ formSchema(contactForm)
  /\ submitCount + Cardinality(Running) < MaxSubmits

SettlesNow(log, i) ==
  /\ i \in DOMAIN log
  /\ log[i].settled.kind = "pending"
  /\ log'[i].settled.kind # "pending"

\* C15: when invocation A settles while an invocation B, started after A, is
\* still in flight, neither isPending nor isError changes: the shared flags
\* follow the lifecycle of B only.
C15_OverlapFlagsFollowLatest ==
  [][ \A a, b \in DOMAIN runs :
        (a < b /\ SettlesNow(runs, a) /\ runs'[b].settled.kind = "pending") =>
          /\ isPending' = isPending
          /\ isError' = isError ]_vars

\* C16: when two submissions overlap (the later was made while the earlier
\* was in flight), then once both have settled the list holds a terminal
\* entry of each of them.
C16_OverlappingSettlementsBothKept ==
  \A i, j \in DOMAIN ops :
    (/\ i \in ops[j].overlaps
     /\ ops[i].settled.kind # "pending"
     /\ ops[j].settled.kind # "pending")
    => Shows(i, Terminal) /\ Shows(j, Terminal)

C18_TerminalEntriesStable ==
  [][ \A i \in DOMAIN ops : \A st \in Terminal :
        Shows(i, {st}) => (Shows(i, {st}))' /\ ~(Shows(i, {"Pending"}))' ]_vars

SubmitOrder == <<"validated", "setRequests Pending", "invoke",
                 "settled", "setRequests terminal">>

HasEntryOf(list, i) == \E k \in DOMAIN list : list[k].sid = i

\* C22: a submit handler captures the list as it is before the handler
\* writes to it, and the settlement of that submission writes exactly the
\* captured list followed by the submission's terminal entry: afterwards the
\* list has no Pending entry of the submission, no entry of a submission
\* made later, and no terminal entry of a submission that was in flight at
\* the submit.
C22_SettlementWritesCapturedList ==
  [][ /\ Len(ops') > Len(ops) => ops'[Len(ops')].snapshot = requests
      /\ \A i \in DOMAIN ops :
           SettlesNow(ops, i) =>
             /\ requests' = Append(ops[i].snapshot,
                  Entry(ops[i].values,
                        IF ops'[i].settled.kind = "resolve" THEN "Requested" ELSE "Error"))
             /\ ~(Shows(i, {"Pending"}))'
             /\ \A j \in DOMAIN ops :
                  /\ j > i => ~HasEntryOf(requests', j)
                  /\ j \in ops[i].overlaps => ~(Shows(j, Terminal))' ]_vars

C22_Witness ==
  /\ Len(ops) = 2
  /\ 1 \in ops[2].overlaps
  /\ ops[1].settled.kind = "resolve"
  /\ ops[2].settled.kind # "pending"
  /\ requests = Append(ops[1].snapshot, Entry(ops[1].values, "Requested"))
  /\ ~HasEntryOf(requests, 2)

\* C23: on the form action path a resolution with a value writes the
\* Requested entry and emits the success notification; a resolution with
\* undefined writes nothing and emits nothing: the list, with the
\* submission's Pending entry if it is in it, and the notifications stay as
\* they are, and isError is false.
C23_VoidResolutionWritesNothing ==
  [][ \A i \in DOMAIN ops :
        (/\ ops[i].path = "mutation"
         /\ SettlesNow(ops, i)
         /\ ops'[i].settled.kind = "resolve") =>
          /\ ~isError'
          /\ IF ops'[i].settled.data = Undefined
               THEN /\ requests' = requests
                    /\ toasts' = toasts
                    /\ Shows(i, {"Pending"}) => (Shows(i, {"Pending"}))'
               ELSE /\ requests' = Append(ops[i].snapshot,
                                         Entry(ops'[i].settled.data, "Requested"))
                    /\ toasts' = Append(toasts,
                         Toast("success", SuccessMessage(ops'[i].settled.data))) ]_vars

C23_Witness ==
  /\ Len(ops) = 1
  /\ ops[1].path = "mutation"
  /\ ops[1].settled = VoidResolution
  /\ Shows(1, {"Pending"})
  /\ ~Shows(1, Terminal)
  /\ toasts = <<>>
  /\ ~isError
  /\ ~isPending

\* C24: every settlement of an invocation leaves isPending false, whether
\* the operation resolved or rejected and whether or not a callback threw;
\* when onSuccess throws, isError is set and onError is invoked after it for
\* the same invocation.
C24_PendingClearedOnEveryPath ==
  [][ \A i \in DOMAIN runs :
        SettlesNow(runs, i) =>
          /\ isPending' = FALSE
          /\ \A k \in DOMAIN calls' :
               (/\ k \notin DOMAIN calls
                /\ calls'[k].callback = "onSuccess"
                /\ calls'[k].threw) =>
                 /\ isError'
                 /\ \E n \in DOMAIN calls' :
                      /\ n > k
                      /\ calls'[n].callback = "onError"
                      /\ calls'[n].run = i
                      /\ calls'[n].arg = CallbackError ]_vars

C24_Witness ==
  /\ Len(runs) = 2
  /\ runs[1].settled.kind = "resolve"
  /\ runs[2].settled.kind = "reject"
  /\ \E k \in CallsOf(1) : calls[k].callback = "onSuccess" /\ calls[k].threw
  /\ \E k \in CallsOf(1) : calls[k].callback = "onError" /\ calls[k].threw
  /\ \E k \in CallsOf(2) : calls[k].callback = "onError" /\ calls[k].threw
  /\ unhandled = <<1, 2>>
  /\ ~isPending
  /\ isError

TransitionFlag(path) ==
  IF path = "transition" THEN isPendingTransition ELSE isPendingOptimistic

\* C25: a transition started by the Use Transition or Use Optimistic button
\* ends while every submission started in it is still in flight, and such a
\* submission settles only after its transition has ended; the button's
\* pending flag is therefore not held until the settlement.
C25_TransitionEndsBeforeSettlement ==
  [][ /\ \A path \in {"transition", "optimistic"} :
           (TransitionFlag(path) /\ ~TransitionFlag(path)') =>
             /\ \E i \in InFlight : ops[i].path = path /\ ops[i].tr
             /\ \A i \in DOMAIN ops :
                  (ops[i].path = path /\ ops[i].tr) => i \in InFlight
      /\ \A i \in DOMAIN ops :
           (ops[i].path # "mutation" /\ SettlesNow(ops, i)) => ~ops[i].tr ]_vars

C25_Witness ==
  /\ Len(ops) = 2
  /\ ops[1].path = "optimistic"
  /\ ops[2].path = "optimistic"
  /\ InFlight = {1, 2}
  /\ ~ops[1].tr
  /\ ops[2].tr
  /\ isPendingOptimistic

SettledStatuses == {"SUCCESS", "ERROR"}

\* C26: the action state is INIT exactly until the first action has
\* settled and SUCCESS or ERROR afterwards, the state of the last settlement;
\* whatever the previous state, runAction can give SUCCESS and can give
\* ERROR.
C26_ActionStatusNeverBackToInit ==
  /\ action.status \in {"INIT"} \cup SettledStatuses
  /\ actionLog = <<>> <=> action = initState
  /\ actionLog # <<>> =>
       /\ action.status \in SettledStatuses
       /\ action = actionLog[Len(actionLog)].state
  /\ \A prev \in {initState, [status |-> "ERROR"],
                  [status |-> "SUCCESS", data |-> FormData.name]} :
       {r.value.status : r \in runAction(prev, FormData.name)} = SettledStatuses

C26_Witness ==
  \A a, b \in SettledStatuses :
    \E k \in DOMAIN actionLog :
      /\ k + 1 \in DOMAIN actionLog
      /\ actionLog[k].state.status = a
      /\ actionLog[k + 1].state.status = b

\* C27: every runAction promise is resolved, none is rejected: a failure is
\* the value {status: ERROR} and nothing else, and a SUCCESS value carries
\* the "name" field of the form data submitted.
C27_RunActionAlwaysResolves ==
  \A k \in DOMAIN actionLog :
    /\ actionLog[k].kind = "resolve"
    /\ actionLog[k].state.status \in SettledStatuses
    /\ actionLog[k].state.status = "ERROR" => actionLog[k].state = [status |-> "ERROR"]
    /\ actionLog[k].state.status = "SUCCESS" =>
         actionLog[k].state = [status |-> "SUCCESS", data |-> actionLog[k].name]
    /\ actionLog[k].name = FormData.name

C27_Witness ==
  /\ \E k \in DOMAIN actionLog : actionLog[k].state = [status |-> "ERROR"]
  /\ \E k \in DOMAIN actionLog :
       actionLog[k].state = [status |-> "SUCCESS", data |-> "Hello from actions"]
  /\ action.status = "SUCCESS"

\* C28: with the button disabled while isPending, at most one action is
\* dispatched and unsettled; isPending is true exactly while one is; the
\* k-th submission gives the k-th state update, computed from the state the
\* previous update left, with no other submission waiting.
C28_ActionsNeverOverlap ==
  /\ Len(actionQueue) <= 1
  /\ isPending <=> actionQueue # <<>>
  /\ \A k \in DOMAIN actionQueue : actionQueue[k].id = Len(actionLog) + k
  /\ \A k \in DOMAIN actionLog :
       /\ actionLog[k].id = k
       /\ actionLog[k].waiting = 0
       /\ actionLog[k].prev = IF k = 1 THEN initState ELSE actionLog[k - 1].state

C28_Witness ==
  /\ page = "FormAction"
  /\ Len(actionLog) = 2
  /\ Len(actionQueue) = 1
  /\ isPending
  /\ ActionSubmitDisabled

\* C29: the Retry indicator of the Use Optimistic button follows the
\* authoritative list alone: it is shown exactly when the list is not empty
\* and ends with an Error entry.  The step in which a submission settles
\* leaves it shown if the submission failed and not shown if it succeeded,
\* and no other step changes it.
C29_RetryFollowsLastEntry ==
  [][ /\ RetryShown' <=> (requests' # <<>> /\ requests'[Len(requests')].status = "Error")
      /\ \A i \in DOMAIN ops :
           SettlesNow(ops, i) => (RetryShown' <=> ops'[i].settled.kind = "reject")
      /\ (\A i \in DOMAIN ops : ~SettlesNow(ops, i)) => (RetryShown' <=> RetryShown) ]_vars

C29_Witness ==
  /\ page = "RequestFormOptimistic"
  /\ Len(ops) = 2
  /\ ops[1].path = "optimistic"
  /\ ops[1].settled.kind = "reject"
  /\ ops[2].path = "optimistic"
  /\ ops[2].tr
  /\ 2 \in InFlight
  /\ optimisticRequests[Len(optimisticRequests)].status = "Pending"
  /\ RetryShown

====
